---- MODULE Spec2Model ----
(***************************************************************************)
(* Model of gpustack_runtime's Docker deployer (deployer/docker.py):       *)
(* the lifecycle operations create / get / delete of one workload against  *)
(* a container engine, and the status aggregation parse_state.             *)
(*                                                                         *)
(* The engine holds containers, volumes and the ephemeral-file directory.  *)
(* Every engine call of create and delete is one step, so that the engine  *)
(* (containers exiting, being restarted by their restart policy) and an    *)
(* observer calling get interleave with them.                              *)
(***************************************************************************)
EXTENDS Integers, Sequences, FiniteSets, TLC

\* ---------------------------------------------------------------- bounds
MaxContainers == 3   \* containers in a plan given to a single create
MaxLifeContainers == 1   \* containers in a plan taken through several calls
MaxOps == 2          \* lifecycle calls (create, delete) made by the caller
MaxFaults == 1       \* engine / filesystem errors injected in a behaviour
MaxList == 3         \* length of the container list given to parse_state
MaxNameLen == 3      \* characters of a workload name
MaxMajor == 13       \* largest major number of a compute capability
MaxMinor == 9        \* largest minor number of a compute capability
MaxMigs == 3         \* MIG devices of one GPU

\* ---------------------------------------------------------------- data
Profiles == {"Init", "Run"}
\* Container.restart_policy: None when not set
RestartPolicies == {"None", "Always", "OnFailure", "Never"}

PlanContainer == [profile : Profiles, restart_policy : RestartPolicies]

RECURSIVE SeqsUpTo(_, _)
SeqsUpTo(S, n) ==
    IF n = 0 THEN {<<>>}
    ELSE LET shorter == SeqsUpTo(S, n - 1)
         IN  shorter \cup {Append(s, x) : s \in {t \in shorter : Len(t) = n - 1}, x \in S}

\* the plans submitted to create: the containers, whether containers[0] has
\* one file with inline content, whether containers[0] has one mount with a
\* volume, and whether the first Run container has checks[0].teardown
PlansOf(n) ==
    [containers : SeqsUpTo(PlanContainer, n),
     file : BOOLEAN, volume : BOOLEAN, teardown : BOOLEAN]
Plans == PlansOf(MaxContainers)
LifePlans == PlansOf(MaxLifeContainers)

\* ------------------------------------------------- restart policy mapping
\* the engine restart policy _create_containers gives a container of the plan
\* ("no": create_params carries no restart_policy)
RestartPolicyParam(c) ==
    IF c.profile = "Init"
    THEN IF c.restart_policy = "None" THEN "no"
         ELSE IF c.restart_policy = "OnFailure" THEN "on-failure"
         ELSE IF c.restart_policy = "Always" THEN "always"
         ELSE "no"
    ELSE IF c.restart_policy = "None" THEN "always"
         ELSE IF c.restart_policy = "OnFailure" THEN "on-failure"
         ELSE "no"

\* _has_restart_policy: HostConfig.RestartPolicy.Name is not "no"
has_restart_policy(c) == c.policy # "no"

\* ------------------------------------------------------ status aggregation
\* a listed container: its component label, status, exit code, restart policy
Components == {"pause", "init", "run", "unhealthy-restart"}

\* a variant of InitLoop that lets a failed init decide wherever it is listed
InitFailedFirst(inits, j) ==
    IF \E x \in j .. Len(inits) :
          inits[x].status = "dead" \/ (inits[x].status = "exited" /\ inits[x].exit # 0)
    THEN "Failed"
    ELSE IF \E x \in j .. Len(inits) : inits[x].status = "created" THEN "Pending"
    ELSE "Initializing"

RECURSIVE InitLoop(_, _)
\* the loop over d_init_containers for a created run container
InitLoop(inits, j) ==
    IF j > Len(inits) THEN "Initializing"
    ELSE LET ci == inits[j] IN
         IF ci.status = "created" THEN "Pending"
         ELSE IF ci.status = "dead" \/ (ci.status = "exited" /\ ci.exit # 0)
              THEN "Failed"
         ELSE IF ci.status # "exited" /\ ~has_restart_policy(ci)
              THEN "Initializing"
         ELSE InitLoop(inits, j + 1)

RECURSIVE RunLoop(_, _, _)
\* the loop over d_run_containers
RunLoop(runs, inits, j) ==
    IF j > Len(runs) THEN "Running"
    ELSE LET cr == runs[j] IN
         IF cr.status = "created"
         THEN IF inits = <<>> THEN "Pending" ELSE InitLoop(inits, 1)
         ELSE IF cr.status = "dead" \/ (cr.status = "exited" /\ cr.exit # 0)
              THEN IF ~has_restart_policy(cr) THEN "Failed" ELSE "Unhealthy"
         ELSE IF cr.status # "running" /\ ~has_restart_policy(cr)
              THEN "Pending"
         ELSE RunLoop(runs, inits, j + 1)

IsInit(c) == c.component = "init"
IsRun(c) == c.component = "run"

parse_state(d_containers) ==
    LET d_init_containers == SelectSeq(d_containers, IsInit)
        d_run_containers == SelectSeq(d_containers, IsRun)
    IN  IF d_run_containers = <<>>
        THEN IF d_init_containers = <<>> THEN "Unknown" ELSE "Pending"
        ELSE RunLoop(d_run_containers, d_init_containers, 1)

\* ------------------------------------------------------------ engine state
\* container names of the workload: {name}-pause, {name}-{profile}-{ci},
\* {name}-unhealthy-restart, as <<component, index>>
PauseName == <<"pause", 0>>
HealName == <<"unhealthy-restart", 0>>
CtrName(profile, ci) == <<IF profile = "Init" THEN "init" ELSE "run", ci>>
Names ==
    {PauseName, HealName} \cup
    {<<k, i>> : k \in {"init", "run"},
                i \in 0 .. ((IF MaxContainers > MaxLifeContainers
                              THEN MaxContainers ELSE MaxLifeContainers) - 1)}

\* health: State.Health.Status, "none" while no probe has reported a failure
Absent == [status |-> "absent", exit |-> 0, policy |-> "no", health |-> "none"]
Created(policy) ==
    [status |-> "created", exit |-> 0, policy |-> policy, health |-> "none"]

\* the handle a lookup or a create returns: the attributes at that moment
NoHandle == [name |-> <<"none", 0>>, status |-> "absent", policy |-> "no"]
Handle(n, c) == [name |-> n, status |-> c.status, policy |-> c.policy]

Callers == {"a", "b"}

VARIABLES
    plan,        \* the WorkloadPlan the caller submits
    supported,   \* is_supported(): the engine answers the ping
    containers,  \* engine: container name -> state (Absent when not there)
    volumes,     \* engine: volumes labelled with the workload
    files,       \* ephemeral directory: files {name}-{ci}-{fi} as <<ci, fi>>
    pc,          \* caller -> position in the running lifecycle call
    loc,         \* caller -> locals of the running lifecycle call
    result,      \* caller -> the last finished call and its outcome, and the
                 \* call finished before it with its outcome
    ops,         \* caller -> lifecycle calls left
    faults,      \* engine / filesystem errors injected so far
    log,         \* the running / last create's engine calls that act on a
                 \* container: <<call, container, exit code a wait returned>>
                 \* (of both creates when two of them run at the same time)
    parseIn,     \* input of parse_state (pure-function specification)
    parseOut,    \* its result
    arg,         \* arguments of the function a pure-function specification applies
    ret          \* <<its result>>, <<>> before it is applied

vars == <<plan, supported, containers, volumes, files, pc, loc, result, ops,
          faults, log, parseIn, parseOut, arg, ret>>

LocInit ==
    [i |-> 0, k |-> 0, pause |-> NoHandle, inits |-> <<>>, runs |-> <<>>,
     heal |-> NoHandle, rem |-> {}, remv |-> {}]
NoResult == [op |-> "none", out |-> "none", prev |-> <<"none", "none">>]

PreVolumes == {"data"}

\* the state after construction: an engine without objects of the workload
\* (but for volumes an operator labelled), caller "a" about to make `calls` calls
InitWith(plans, calls, vols) ==
    /\ plan \in plans
    /\ supported \in BOOLEAN
    /\ containers = [n \in Names |-> Absent]
    /\ volumes \in vols
    /\ files = {}
    /\ pc = [c \in Callers |-> "idle"]
    /\ loc = [c \in Callers |-> LocInit]
    /\ result = [c \in Callers |-> NoResult]
    /\ ops = [c \in Callers |-> IF c = "a" THEN calls ELSE 0]
    /\ faults = 0
    /\ log = <<>>
    /\ parseIn = <<>>
    /\ parseOut = "none"
    /\ arg = <<>>
    /\ ret = <<>>

Init == InitWith(LifePlans, MaxOps, SUBSET PreVolumes)

\* one create call
InitCreate == InitWith(Plans, 1, {{}})

\* ------------------------------------------------------------ lifecycle
CanFault == faults < MaxFaults

\* a lifecycle call returns or raises: its locals are dropped
Finish(c, op, out) ==
    /\ pc' = [pc EXCEPT ![c] = "idle"]
    /\ loc' = [loc EXCEPT ![c] = LocInit]
    /\ result' = [result EXCEPT ![c] = [op |-> op, out |-> out, prev |-> <<@.op, @.out>>]]

Goto(c, label, l) ==
    /\ pc' = [pc EXCEPT ![c] = label]
    /\ loc' = [loc EXCEPT ![c] = l]
    /\ UNCHANGED result

\* a variant of the validation without the check for a Run container
ValidationNoRunCheck(p) == p.containers = <<>>

\* create's validation: no containers, or no Run container
ValidationError(p) ==
    \/ p.containers = <<>>
    \/ ~ \E i \in 1 .. Len(p.containers) : p.containers[i].profile = "Run"

\* a variant that makes the autoheal container for every plan
AutohealAlways(p) == TRUE

\* _create_unhealthy_restart_container: checks[0].teardown of some Run container
AutohealEnabled(p) ==
    /\ p.teardown
    /\ \E i \in 1 .. Len(p.containers) : p.containers[i].profile = "Run"

\* what the create does after the lookup / creation of plan container i
AfterContainer(p, i) ==
    IF i < Len(p.containers) THEN "c_ctr_get"
    ELSE IF AutohealEnabled(p) THEN "c_heal_get"
    ELSE "c_start"

\* create, up to the validation of the plan (the _supported wrapper first)
CreateBegin(c) ==
    /\ pc[c] = "idle"
    /\ ops[c] > 0
    /\ ops' = [ops EXCEPT ![c] = @ - 1]
    /\ log' = IF \A d \in Callers : pc[d] = "idle" THEN <<>> ELSE log
    /\ IF ~supported THEN Finish(c, "create", "UnsupportedError")
       ELSE IF ValidationError(plan) THEN Finish(c, "create", "OperationError")
       ELSE Goto(c, "c_files", [LocInit EXCEPT !.k = 1])
    /\ UNCHANGED <<plan, supported, containers, volumes, files, faults,
                   parseIn, parseOut, arg, ret>>

\* the files of the plan with inline content, as <<ci, fi>>
EphemeralFiles(p) == IF p.file THEN {<<0, 0>>} ELSE {}

\* _create_ephemeral_files: open/write/chmod each file; OSError -> OperationError
CreateEphemeralFiles(c) ==
    /\ pc[c] = "c_files"
    /\ \/ /\ files' = files \cup EphemeralFiles(plan)
          /\ Goto(c, "c_volumes", loc[c])
          /\ UNCHANGED faults
       \/ /\ EphemeralFiles(plan) # {}
          /\ CanFault
          /\ faults' = faults + 1
          /\ \E written \in SUBSET EphemeralFiles(plan) :
                files' = files \cup written
          /\ Finish(c, "create", "OperationError")
    /\ UNCHANGED <<plan, supported, containers, volumes, ops, log,
                   parseIn, parseOut, arg, ret>>

\* _create_ephemeral_volumes: the loop unpacks each volume name (a string)
\* into two variables, which raises ValueError before any volume is created
CreateEphemeralVolumes(c) ==
    /\ pc[c] = "c_volumes"
    /\ IF plan.volume
       THEN Finish(c, "create", "ValueError")
       ELSE Goto(c, "c_pause_get", loc[c])
    /\ UNCHANGED <<plan, supported, containers, volumes, files, ops, faults,
                   log, parseIn, parseOut, arg, ret>>

\* an engine call fails with APIError, which the caller wraps
ApiError(c, op) ==
    /\ CanFault
    /\ faults' = faults + 1
    /\ Finish(c, op, "OperationError")

\* a variant of the lookup that never adopts the pause container
CreatePauseGetNoAdopt(c) ==
    /\ pc[c] = "c_pause_get"
    /\ Goto(c, "c_pause_create", loc[c])
    /\ UNCHANGED <<plan, supported, containers, volumes, files, ops, faults, log,
                   parseIn, parseOut, arg, ret>>

\* _create_pause_container: containers.get({name}-pause); adopt when found
CreatePauseGet(c) ==
    /\ pc[c] = "c_pause_get"
    /\ \/ /\ containers[PauseName].status # "absent"
          /\ Goto(c, "c_ctr_get",
                  [loc[c] EXCEPT !.pause = Handle(PauseName, containers[PauseName]),
                                        !.i = 1])
          /\ UNCHANGED faults
       \/ /\ containers[PauseName].status = "absent"
          /\ Goto(c, "c_pause_create", loc[c])
          /\ UNCHANGED faults
       \/ ApiError(c, "create")
    /\ UNCHANGED <<plan, supported, containers, volumes, files, ops, log,
                   parseIn, parseOut, arg, ret>>

\* a variant of the creation against an engine that accepts a taken name
CreatePauseCreateAgain(c) ==
    /\ pc[c] = "c_pause_create"
    /\ containers' = [containers EXCEPT ![PauseName] = Created("always")]
    /\ log' = Append(log, <<"create", PauseName, 0>>)
    /\ Goto(c, "c_ctr_get",
            [loc[c] EXCEPT !.pause = Handle(PauseName, Created("always")), !.i = 1])
    /\ UNCHANGED <<plan, supported, volumes, files, ops, faults,
                   parseIn, parseOut, arg, ret>>

\* _create_pause_container: _pull_image, containers.create(restart always);
\* the engine refuses a name that is taken
CreatePauseCreate(c) ==
    /\ pc[c] = "c_pause_create"
    /\ \/ /\ containers[PauseName].status = "absent"
          /\ containers' = [containers EXCEPT ![PauseName] = Created("always")]
          /\ log' = Append(log, <<"create", PauseName, 0>>)
          /\ Goto(c, "c_ctr_get",
                  [loc[c] EXCEPT !.pause = Handle(PauseName, Created("always")),
                                        !.i = 1])
          /\ UNCHANGED faults
       \/ /\ containers[PauseName].status # "absent"
          /\ Finish(c, "create", "OperationError")
          /\ UNCHANGED <<containers, log, faults>>
       \/ /\ ApiError(c, "create")
          /\ UNCHANGED <<containers, log>>
    /\ UNCHANGED <<plan, supported, volumes, files, ops, parseIn, parseOut, arg, ret>>

\* d_init_containers.append / d_run_containers.append, and the loop's next turn
Collect(l, profile, h) ==
    IF profile = "Init"
    THEN [l EXCEPT !.inits = Append(@, h), !.i = @ + 1]
    ELSE [l EXCEPT !.runs = Append(@, h), !.i = @ + 1]

\* _create_containers: containers.get({name}-{profile}-{ci}); adopt when found
CreateContainerGet(c) ==
    /\ pc[c] = "c_ctr_get"
    /\ LET i == loc[c].i
           pcont == plan.containers[i]
           n == CtrName(pcont.profile, i - 1)
       IN  \/ /\ containers[n].status # "absent"
              /\ Goto(c, AfterContainer(plan, i),
                      Collect(loc[c], pcont.profile, Handle(n, containers[n])))
              /\ UNCHANGED faults
           \/ /\ containers[n].status = "absent"
              /\ Goto(c, "c_ctr_create", loc[c])
              /\ UNCHANGED faults
           \/ ApiError(c, "create")
    /\ UNCHANGED <<plan, supported, containers, volumes, files, ops, log,
                   parseIn, parseOut, arg, ret>>

\* _create_containers: _pull_image, containers.create(**create_params)
CreateContainerCreate(c) ==
    /\ pc[c] = "c_ctr_create"
    /\ LET i == loc[c].i
           pcont == plan.containers[i]
           n == CtrName(pcont.profile, i - 1)
           made == Created(RestartPolicyParam(pcont))
       IN  \/ /\ containers[n].status = "absent"
              /\ containers' = [containers EXCEPT ![n] = made]
              /\ log' = Append(log, <<"create", n, 0>>)
              /\ Goto(c, AfterContainer(plan, i),
                      Collect(loc[c], pcont.profile, Handle(n, made)))
              /\ UNCHANGED faults
           \/ /\ containers[n].status # "absent"
              /\ Finish(c, "create", "OperationError")
              /\ UNCHANGED <<containers, log, faults>>
           \/ /\ ApiError(c, "create")
              /\ UNCHANGED <<containers, log>>
    /\ UNCHANGED <<plan, supported, volumes, files, ops, parseIn, parseOut, arg, ret>>

\* _create_unhealthy_restart_container: the lookup
CreateHealGet(c) ==
    /\ pc[c] = "c_heal_get"
    /\ \/ /\ containers[HealName].status # "absent"
          /\ Goto(c, "c_start",
                  [loc[c] EXCEPT !.heal = Handle(HealName, containers[HealName])])
          /\ UNCHANGED faults
       \/ /\ containers[HealName].status = "absent"
          /\ Goto(c, "c_heal_create", loc[c])
          /\ UNCHANGED faults
       \/ ApiError(c, "create")
    /\ UNCHANGED <<plan, supported, containers, volumes, files, ops, log,
                   parseIn, parseOut, arg, ret>>

\* _create_unhealthy_restart_container: _pull_image, containers.create
CreateHealCreate(c) ==
    /\ pc[c] = "c_heal_create"
    /\ \/ /\ containers[HealName].status = "absent"
          /\ containers' = [containers EXCEPT ![HealName] = Created("always")]
          /\ log' = Append(log, <<"create", HealName, 0>>)
          /\ Goto(c, "c_start",
                  [loc[c] EXCEPT !.heal = Handle(HealName, Created("always"))])
          /\ UNCHANGED faults
       \/ /\ containers[HealName].status # "absent"
          /\ Finish(c, "create", "OperationError")
          /\ UNCHANGED <<containers, log, faults>>
       \/ /\ ApiError(c, "create")
          /\ UNCHANGED <<containers, log>>
    /\ UNCHANGED <<plan, supported, volumes, files, ops, parseIn, parseOut, arg, ret>>

\* a variant of the start order with the run containers before the inits
StartListRunsFirst(l) ==
    <<l.pause>> \o l.runs \o l.inits \o
    (IF l.heal = NoHandle THEN <<>> ELSE <<l.heal>>)

\* a variant of the start order with the pause container after the inits
StartListPauseLate(l) ==
    l.inits \o <<l.pause>> \o l.runs \o
    (IF l.heal = NoHandle THEN <<>> ELSE <<l.heal>>)

\* the order create starts the containers in:
\* pause -> init(s) -> run(s) -> unhealthy restart
StartList(l) ==
    <<l.pause>> \o l.inits \o l.runs \o
    (IF l.heal = NoHandle THEN <<>> ELSE <<l.heal>>)

\* a variant of _start_containers that restarts a running container
StartCallRestartsRunning(status) ==
    CASE status = "created" -> "start"
      [] status \in {"exited", "dead", "running"} -> "restart"
      [] status = "paused" -> "unpause"
      [] OTHER -> "none"

\* _start_containers: the engine call for the status the handle holds
StartCall(status) ==
    CASE status = "created" -> "start"
      [] status \in {"exited", "dead"} -> "restart"
      [] status = "paused" -> "unpause"
      [] OTHER -> "none"

\* a variant of _start_containers that waits for no container
NeverWaits(h) == FALSE

\* _start_containers waits for the exit of a container without restart policy
Waits(h) == ~has_restart_policy(h)

\* the engine accepts the call on a container in this state
Accepts(call, cur) ==
    CASE call = "start" -> cur.status \in {"created", "exited", "running"}
      [] call = "restart" -> cur.status # "absent"
      [] call = "unpause" -> cur.status = "paused"
      [] OTHER -> FALSE

Running(cur) == [cur EXCEPT !.status = "running", !.exit = 0, !.health = "none"]

\* the next container of the start list, or the end of create
AfterStart(c, l) ==
    IF l.k < Len(StartList(l))
    THEN Goto(c, "c_start", [l EXCEPT !.k = @ + 1])
    ELSE Finish(c, "create", "ok")

AfterCall(c, l, h) ==
    IF Waits(h) THEN Goto(c, "c_wait", l) ELSE AfterStart(c, l)

\* _start_containers(container): start / restart / unpause by status
StartContainer(c) ==
    /\ pc[c] = "c_start"
    /\ LET l == loc[c]
           h == StartList(l)[l.k]
           call == StartCall(h.status)
           cur == containers[h.name]
       IN  \/ /\ call = "none"
              /\ AfterCall(c, l, h)
              /\ UNCHANGED <<containers, log, faults>>
           \/ /\ call # "none"
              /\ Accepts(call, cur)
              /\ containers' = [containers EXCEPT ![h.name] = Running(cur)]
              /\ log' = Append(log, <<call, h.name, 0>>)
              /\ AfterCall(c, l, h)
              /\ UNCHANGED faults
           \/ /\ call # "none"
              /\ ~Accepts(call, cur)
              /\ Finish(c, "create", "OperationError")
              /\ UNCHANGED <<containers, log, faults>>
           \/ /\ call # "none"
              /\ ApiError(c, "create")
              /\ UNCHANGED <<containers, log>>
    /\ UNCHANGED <<plan, supported, volumes, files, ops, parseIn, parseOut, arg, ret>>

\* _start_containers(container): container.wait()["StatusCode"]; a nonzero
\* exit raises docker.errors.ContainerError, which create does not catch
WaitContainer(c) ==
    /\ pc[c] = "c_wait"
    /\ LET l == loc[c]
           h == StartList(l)[l.k]
           cur == containers[h.name]
       IN  \/ /\ cur.status \in {"exited", "dead"}
              /\ log' = Append(log, <<"wait", h.name, cur.exit>>)
              /\ IF cur.exit # 0
                 THEN Finish(c, "create", "ContainerError")
                 ELSE AfterStart(c, l)
              /\ UNCHANGED faults
           \/ /\ cur.status = "absent"
              /\ Finish(c, "create", "OperationError")
              /\ UNCHANGED <<log, faults>>
           \/ /\ ApiError(c, "create")
              /\ UNCHANGED log
    /\ UNCHANGED <<plan, supported, containers, volumes, files, ops,
                   parseIn, parseOut, arg, ret>>

\* ------------------------------------------------------------------ delete
Existing == {n \in Names : containers[n].status # "absent"}

\* delete: the _supported wrapper, then get(name): containers.list by label
DeleteBegin(c) ==
    /\ pc[c] = "idle"
    /\ ops[c] > 0
    /\ ops' = [ops EXCEPT ![c] = @ - 1]
    /\ \/ /\ ~supported
          /\ Finish(c, "delete", "UnsupportedError")
          /\ UNCHANGED faults
       \/ /\ supported
          /\ Existing = {}
          /\ Finish(c, "delete", "None")
          /\ UNCHANGED faults
       \/ /\ supported
          /\ Existing # {}
          /\ Goto(c, "d_ctrs", [LocInit EXCEPT !.rem = Existing])
          /\ UNCHANGED faults
       \/ /\ supported
          /\ ApiError(c, "delete")
    /\ UNCHANGED <<plan, supported, containers, volumes, files, log,
                   parseIn, parseOut, arg, ret>>

\* delete: c.remove(force=True) for the next listed container
DeleteContainer(c) ==
    /\ pc[c] = "d_ctrs"
    /\ loc[c].rem # {}
    /\ \E n \in loc[c].rem :
          \/ /\ containers[n].status # "absent"
             /\ containers' = [containers EXCEPT ![n] = Absent]
             /\ Goto(c, "d_ctrs", [loc[c] EXCEPT !.rem = @ \ {n}])
             /\ UNCHANGED faults
          \/ /\ containers[n].status = "absent"
             /\ Finish(c, "delete", "OperationError")
             /\ UNCHANGED <<containers, faults>>
          \/ /\ ApiError(c, "delete")
             /\ UNCHANGED containers
    /\ UNCHANGED <<plan, supported, volumes, files, ops, log, parseIn, parseOut, arg, ret>>

\* delete: volumes.list by the workload label
DeleteVolumeList(c) ==
    /\ pc[c] = "d_ctrs"
    /\ loc[c].rem = {}
    /\ \/ /\ Goto(c, "d_vols", [loc[c] EXCEPT !.remv = volumes])
          /\ UNCHANGED faults
       \/ ApiError(c, "delete")
    /\ UNCHANGED <<plan, supported, containers, volumes, files, ops, log,
                   parseIn, parseOut, arg, ret>>

\* delete: v.remove(force=True) for the next listed volume
DeleteVolume(c) ==
    /\ pc[c] = "d_vols"
    /\ loc[c].remv # {}
    /\ \E v \in loc[c].remv :
          \/ /\ v \in volumes
             /\ volumes' = volumes \ {v}
             /\ Goto(c, "d_vols", [loc[c] EXCEPT !.remv = @ \ {v}])
             /\ UNCHANGED faults
          \/ /\ v \notin volumes
             /\ Finish(c, "delete", "OperationError")
             /\ UNCHANGED <<volumes, faults>>
          \/ /\ ApiError(c, "delete")
             /\ UNCHANGED volumes
    /\ UNCHANGED <<plan, supported, containers, files, ops, log, parseIn, parseOut, arg, ret>>

\* a variant of delete's last step that leaves the ephemeral files
DeleteFilesKept(c) ==
    /\ pc[c] = "d_vols"
    /\ loc[c].remv = {}
    /\ Finish(c, "delete", "ok")
    /\ UNCHANGED <<plan, supported, containers, volumes, files, ops, faults, log,
                   parseIn, parseOut, arg, ret>>

\* delete: unlink every file matching {name}-* ; OSError -> OperationError
DeleteFiles(c) ==
    /\ pc[c] = "d_vols"
    /\ loc[c].remv = {}
    /\ \/ /\ files' = {}
          /\ Finish(c, "delete", "ok")
          /\ UNCHANGED faults
       \/ /\ files # {}
          /\ CanFault
          /\ faults' = faults + 1
          /\ \E left \in SUBSET files : left # {} /\ files' = left
          /\ Finish(c, "delete", "OperationError")
    /\ UNCHANGED <<plan, supported, containers, volumes, ops, log, parseIn, parseOut, arg, ret>>

\* ------------------------------------------------------------------ engine
Workers == {n \in Names : n[1] \in {"init", "run"}}

\* the process of an init or run container ends. The engine keeps a container
\* with a restart policy running, so only a container without one is seen exited
ContainerExit(n, code) ==
    /\ containers[n].status = "running"
    /\ containers[n].policy = "no"
    /\ containers' = [containers EXCEPT ![n] = [@ EXCEPT !.status = "exited", !.exit = code,
                                                          !.health = "none"]]
    /\ UNCHANGED <<plan, supported, volumes, files, pc, loc, result, ops, faults,
                   log, parseIn, parseOut, arg, ret>>

\* an operator pauses a running container between two lifecycle calls
OperatorPause(n) ==
    /\ \A c \in Callers : pc[c] = "idle"
    /\ \E c \in Callers : ops[c] > 0
    /\ containers[n].status = "running"
    /\ containers' = [containers EXCEPT ![n] = [@ EXCEPT !.status = "paused"]]
    /\ UNCHANGED <<plan, supported, volumes, files, pc, loc, result, ops, faults,
                   log, parseIn, parseOut, arg, ret>>

Next ==
    \/ \E c \in Callers :
          \/ CreateBegin(c)
          \/ CreateEphemeralFiles(c)
          \/ CreateEphemeralVolumes(c)
          \/ CreatePauseGet(c)
          \/ CreatePauseCreate(c)
          \/ CreateContainerGet(c)
          \/ CreateContainerCreate(c)
          \/ CreateHealGet(c)
          \/ CreateHealCreate(c)
          \/ StartContainer(c)
          \/ WaitContainer(c)
          \/ DeleteBegin(c)
          \/ DeleteContainer(c)
          \/ DeleteVolumeList(c)
          \/ DeleteVolume(c)
          \/ DeleteFiles(c)
    \/ \E n \in Workers, code \in {0, 1} : ContainerExit(n, code)
    \/ \E n \in Workers : OperatorPause(n)

Spec == Init /\ [][Next]_vars

\* the health probe of a running run container fails: the engine reports the
\* container unhealthy and leaves its status running
HealthFails(n) ==
    /\ n[1] = "run"
    /\ containers[n].status = "running"
    /\ containers[n].health # "unhealthy"
    /\ containers' = [containers EXCEPT ![n] = [@ EXCEPT !.health = "unhealthy"]]
    /\ UNCHANGED <<plan, supported, volumes, files, pc, loc, result, ops, faults,
                   log, parseIn, parseOut, arg, ret>>

\* one create call, against the engine
NextCreate ==
    \/ \E c \in Callers :
          \/ CreateBegin(c)
          \/ CreateEphemeralFiles(c)
          \/ CreateEphemeralVolumes(c)
          \/ CreatePauseGet(c)
          \/ CreatePauseCreate(c)
          \/ CreateContainerGet(c)
          \/ CreateContainerCreate(c)
          \/ CreateHealGet(c)
          \/ CreateHealCreate(c)
          \/ StartContainer(c)
          \/ WaitContainer(c)
    \/ \E n \in Workers, code \in {0, 1} : ContainerExit(n, code)

SpecCreate == InitCreate /\ [][NextCreate]_vars

\* two callers, each making one create call of the same small plan
InitConcurrent ==
    /\ plan \in LifePlans
    /\ supported = TRUE
    /\ containers = [n \in Names |-> Absent]
    /\ volumes = {}
    /\ files = {}
    /\ pc = [c \in Callers |-> "idle"]
    /\ loc = [c \in Callers |-> LocInit]
    /\ result = [c \in Callers |-> NoResult]
    /\ ops = [c \in Callers |-> 1]
    /\ faults = 0
    /\ log = <<>>
    /\ parseIn = <<>>
    /\ parseOut = "none"
    /\ arg = <<>>
    /\ ret = <<>>

SpecConcurrent == InitConcurrent /\ [][NextCreate]_vars

\* one create call of a small plan, with health probes that may fail
InitHealth == InitWith(LifePlans, 1, {{}})
NextHealth ==
    \/ NextCreate
    \/ \E n \in Workers : HealthFails(n)
SpecHealth == InitHealth /\ [][NextHealth]_vars

\* --------------------------------------------------------------------- get
RECURSIVE Perms(_)
\* the orders a set can be listed in
Perms(S) ==
    IF S = {} THEN {<<>>}
    ELSE UNION {{<<x>> \o q : q \in Perms(S \ {x})} : x \in S}

\* a container as containers.list returns it
Listed(n) ==
    [component |-> n[1], status |-> containers[n].status,
     exit |-> containers[n].exit, policy |-> containers[n].policy]

\* get(name): the state of the workload, for each order the engine may list
\* its containers in; no status when it lists none
GetStates ==
    IF Existing = {} THEN {"None"}
    ELSE {parse_state([i \in 1 .. Len(q) |-> Listed(q[i])]) : q \in Perms(Existing)}

RECURSIVE NewestFirst(_)
\* the init and run containers with index up to i, the newest first: create
\* makes them in plan order, and the index in the name is the plan position
NewestFirst(i) ==
    IF i < 0 THEN <<>>
    ELSE (IF containers[<<"run", i>>].status # "absent" THEN <<<<"run", i>>>> ELSE <<>>)
         \o (IF containers[<<"init", i>>].status # "absent" THEN <<<<"init", i>>>> ELSE <<>>)
         \o NewestFirst(i - 1)

\* containers.list as the engine orders it by default: the newest first
DefaultList ==
    (IF containers[HealName].status # "absent" THEN <<HealName>> ELSE <<>>)
    \o NewestFirst((IF MaxContainers > MaxLifeContainers
                     THEN MaxContainers ELSE MaxLifeContainers) - 1)
    \o (IF containers[PauseName].status # "absent" THEN <<PauseName>> ELSE <<>>)

\* get(name).state with the default order of the list; "None" without status
GetState ==
    IF Existing = {} THEN "None"
    ELSE parse_state([i \in 1 .. Len(DefaultList) |-> Listed(DefaultList[i])])

\* ------------------------------------------------ parse_state on its own
ListedStatus ==
    {[status |-> st, exit |-> 0] : st \in {"created", "running", "exited", "dead", "paused"}}
    \cup {[status |-> "exited", exit |-> 1]}

\* the containers a list may hold: init and run containers in every status,
\* with and without restart policy, and the pause container
ListedContainers ==
    {[component |-> k, status |-> s.status, exit |-> s.exit, policy |-> pol] :
        k \in {"init", "run"}, s \in ListedStatus, pol \in {"no", "always"}}
    \cup {[component |-> "pause", status |-> "running", exit |-> 0, policy |-> "always"]}

NoPlan == [containers |-> <<>>, file |-> FALSE, volume |-> FALSE, teardown |-> FALSE]

InitParse ==
    /\ parseIn \in SeqsUpTo(ListedContainers, MaxList)
    /\ parseOut = "none"
    /\ plan = NoPlan
    /\ supported = TRUE
    /\ containers = [n \in Names |-> Absent]
    /\ volumes = {}
    /\ files = {}
    /\ pc = [c \in Callers |-> "idle"]
    /\ loc = [c \in Callers |-> LocInit]
    /\ result = [c \in Callers |-> NoResult]
    /\ ops = [c \in Callers |-> 0]
    /\ faults = 0
    /\ log = <<>>
    /\ arg = <<>>
    /\ ret = <<>>

\* DockerWorkloadStatus.__init__: self.state = self.parse_state(d_containers)
ParseState ==
    /\ parseOut = "none"
    /\ parseOut' = parse_state(parseIn)
    /\ UNCHANGED <<plan, supported, containers, volumes, files, pc, loc, result,
                   ops, faults, log, parseIn, arg, ret>>

SpecParse == InitParse /\ [][ParseState]_vars

\* ------------------------------------------------- the status get returns
\* a label is <<namespace, key, value>>: the key string is namespace + key
ReservedPrefix == "runtime.gpustack.ai/"
WorkloadNames == {"w", "x"}
\* the user labels of the plan of workload "w", and those of workload "x"
UserLabelSets == SUBSET {<<"", "app", "llm">>, <<"gpustack.ai/", "tier", "1">>}
OtherLabels == {<<"", "owner", "ops">>}

\* create: workload.labels = {**(workload.labels or {}), _LABEL_WORKLOAD: name}
WorkloadLabels(L, name) == L \cup {<<ReservedPrefix, "workload", name>>}

\* the labels create gives a container: the workload's, the component, and
\* for init / run containers the component name and index, and the heal label
ContainerLabels(L, name, component, heal) ==
    WorkloadLabels(L, name)
    \cup {<<ReservedPrefix, "component", component>>}
    \cup (IF component \in {"init", "run"}
          THEN {<<ReservedPrefix, "component-name", component>>,
                <<ReservedPrefix, "component-index", "0">>}
          ELSE {})
    \cup (IF component = "run" /\ heal
          THEN {<<ReservedPrefix, "component-heal-" \o name, "true">>}
          ELSE {})

\* a container of the engine, made by a create of workload wl
EngineContainer(wl, component, st, pol, L, heal) ==
    [name |-> <<wl, component>>, workload |-> wl, component |-> component,
     status |-> st.status, exit |-> st.exit, policy |-> pol,
     labels |-> ContainerLabels(L, wl, component, heal)]

StatusContainers(L, heal) ==
    {EngineContainer("w", "init", st, pol, L, heal) :
        st \in {[status |-> "running", exit |-> 0]}, pol \in {"no", "always"}}
    \cup {EngineContainer("w", "init", st, "no", L, heal) :
        st \in {[status |-> "created", exit |-> 0], [status |-> "exited", exit |-> 0]}}
    \cup {EngineContainer("w", "run", st, "always", L, heal) :
        st \in {[status |-> "running", exit |-> 0], [status |-> "exited", exit |-> 1]}}
    \cup {EngineContainer("w", k, [status |-> "running", exit |-> 0], "always", L, heal) :
        k \in {"pause", "unhealthy-restart"}}
    \cup {EngineContainer("x", k, [status |-> "running", exit |-> 0], "always",
                          OtherLabels, FALSE) : k \in {"init", "run"}}

\* c.labels.get(key) is one of values
HasLabel(c, key, values) ==
    \E l \in c.labels : l[1] = ReservedPrefix /\ l[2] = key /\ l[3] \in values

\* a variant of the filter that takes the containers of every workload
ListComponents(list, name) ==
    LET Match(c) == HasLabel(c, "component", Components)
    IN  SelectSeq(list, Match)

\* containers.list(filters label workload=name and label component)
ListFiltered(list, name) ==
    LET Match(c) == HasLabel(c, "workload", {name}) /\ HasLabel(c, "component", Components)
    IN  SelectSeq(list, Match)

\* a variant that returns every label of the first container
StatusLabelsAll(c) == c.labels

\* DockerWorkloadStatus.__init__: labels of d_containers[0] without the
\* keys that start with the reserved prefix
StatusLabels(c) == {l \in c.labels : l[1] # ReservedPrefix}

\* a variant of the executable rule that takes every running init container
IsExecutableAnyInit(c) ==
    (c.component = "init" /\ c.status = "running") \/ c.component = "run"

\* DockerWorkloadStatus.__init__: the containers appended to executable
IsExecutable(c) ==
    \/ c.component = "init" /\ c.status = "running" /\ has_restart_policy(c)
    \/ c.component = "run"

\* DockerWorkloadStatus.__init__: the containers appended to loggable
IsLoggable(c) == c.component \in {"init", "run"}

\* the operations of a list of containers (token: the container)
Operations(d) == [i \in 1 .. Len(d) |-> d[i].name]

DockerWorkloadStatus(name, d_containers) ==
    [name |-> name,
     labels |-> StatusLabels(d_containers[1]),
     executable |-> Operations(SelectSeq(d_containers, IsExecutable)),
     loggable |-> Operations(SelectSeq(d_containers, IsLoggable)),
     state |-> parse_state(d_containers)]

\* get returns None
NoStatus ==
    [name |-> "", labels |-> {}, executable |-> <<>>, loggable |-> <<>>,
     state |-> "None"]

\* get(name) against an engine holding the containers of `list`
get(name, list) ==
    LET d_containers == ListFiltered(list, name)
    IN  IF d_containers = <<>> THEN NoStatus
        ELSE DockerWorkloadStatus(name, d_containers)

Distinct(list) == \A i, j \in 1 .. Len(list) : i # j => list[i].name # list[j].name

InitStatus ==
    /\ \E L \in UserLabelSets, heal \in BOOLEAN :
          \E list \in SeqsUpTo(StatusContainers(L, heal), MaxList) :
             /\ Distinct(list)
             /\ arg = [name |-> "w", labels |-> L, list |-> list]
    /\ ret = <<>>
    /\ parseIn = <<>>
    /\ parseOut = "none"
    /\ plan = NoPlan
    /\ supported = TRUE
    /\ containers = [n \in Names |-> Absent]
    /\ volumes = {}
    /\ files = {}
    /\ pc = [c \in Callers |-> "idle"]
    /\ loc = [c \in Callers |-> LocInit]
    /\ result = [c \in Callers |-> NoResult]
    /\ ops = [c \in Callers |-> 0]
    /\ faults = 0
    /\ log = <<>>

Get ==
    /\ ret = <<>>
    /\ ret' = <<get(arg.name, arg.list)>>
    /\ UNCHANGED <<plan, supported, containers, volumes, files, pc, loc, result,
                   ops, faults, log, parseIn, parseOut, arg>>

SpecStatus == InitStatus /\ [][Get]_vars

\* --------------------------------------------------- ephemeral file paths
\* strings are sequences of characters
NameChars == {"a", "-", "1"}
WorkloadNameStrings == SeqsUpTo(NameChars, MaxNameLen) \ {<<>>}
\* container and file indices, of one and of two digits
FileIndices == {1, 11}
DigitChars == <<"0", "1", "2", "3", "4", "5", "6", "7", "8", "9">>

RECURSIVE Decimal(_)
\* the f-string conversion of a non-negative int
Decimal(n) ==
    IF n < 10 THEN <<DigitChars[n + 1]>>
    ELSE Decimal(n \div 10) \o <<DigitChars[(n % 10) + 1]>>

\* a variant of the file name without the separators
EphemeralFileNameJoined(name, ci, fi) == name \o Decimal(ci) \o Decimal(fi)

\* _create_ephemeral_files: fn = f"{workload.name}-{ci}-{fi}"
EphemeralFileName(name, ci, fi) ==
    name \o <<"-">> \o Decimal(ci) \o <<"-">> \o Decimal(fi)

\* GPUSTACK_RUNTIME_DOCKER_EPHEMERAL_FILES_DIR.joinpath(fn)
EphemeralFilePath(t) == <<"dir", "/">> \o EphemeralFileName(t.name, t.ci, t.fi)

FileTriples == [name : WorkloadNameStrings, ci : FileIndices, fi : FileIndices]

InitPath ==
    /\ arg \in FileTriples \X FileTriples
    /\ ret = <<>>
    /\ parseIn = <<>>
    /\ parseOut = "none"
    /\ plan = NoPlan
    /\ supported = TRUE
    /\ containers = [n \in Names |-> Absent]
    /\ volumes = {}
    /\ files = {}
    /\ pc = [c \in Callers |-> "idle"]
    /\ loc = [c \in Callers |-> LocInit]
    /\ result = [c \in Callers |-> NoResult]
    /\ ops = [c \in Callers |-> 0]
    /\ faults = 0
    /\ log = <<>>

\* the paths create writes for two files
FilePaths ==
    /\ ret = <<>>
    /\ ret' = <<<<EphemeralFilePath(arg[1]), EphemeralFilePath(arg[2])>>>>
    /\ UNCHANGED <<plan, supported, containers, volumes, files, pc, loc, result,
                   ops, faults, log, parseIn, parseOut, arg>>

SpecPath == InitPath /\ [][FilePaths]_vars

\* ------------------------------------------- the state of the other variables
\* in the specifications that apply one function to its arguments: no plan
\* submitted, an engine without objects, no lifecycle call running
Quiet ==
    /\ parseIn = <<>>
    /\ parseOut = "none"
    /\ plan = NoPlan
    /\ supported = TRUE
    /\ containers = [n \in Names |-> Absent]
    /\ volumes = {}
    /\ files = {}
    /\ pc = [c \in Callers |-> "idle"]
    /\ loc = [c \in Callers |-> LocInit]
    /\ result = [c \in Callers |-> NoResult]
    /\ ops = [c \in Callers |-> 0]
    /\ faults = 0
    /\ log = <<>>

\* ------------------------------------------ the plan object create works on
\* objects are held in a heap: the caller's plan at reference "caller", the
\* object DockerWorkloadPlan(**workload.__dict__) allocates at "copy"
PlanRefs == {"caller", "copy"}
NoObject == [name |-> "", labels |-> <<>>, containers |-> <<>>]

\* WorkloadPlan.labels: None (<<>>) or a dict (<<set of labels>>)
PlanLabels == {<<>>} \cup {<<L>> : L \in UserLabelSets}
CallerPlans ==
    [name : WorkloadNames, labels : PlanLabels,
     containers : SeqsUpTo(PlanContainer, MaxLifeContainers + 1)]

\* a variant that works on the object the caller passed
CopyPlanAlias(heap, ref) == [heap |-> heap, workload |-> ref]

\* create: if isinstance(workload, WorkloadPlan):
\*             workload = DockerWorkloadPlan(**workload.__dict__)
\* (true of a DockerWorkloadPlan too): a new object with the same fields
CopyPlan(heap, ref) ==
    [heap |-> [heap EXCEPT !["copy"] = heap[ref]], workload |-> "copy"]

\* create: workload.labels = {**(workload.labels or {}), _LABEL_WORKLOAD: name}
DefaultLabels(heap, ref) ==
    LET w == heap[ref]
        L == IF w.labels = <<>> THEN {} ELSE w.labels[1]
    IN  [heap EXCEPT ![ref].labels = <<WorkloadLabels(L, w.name)>>]

\* the labels of the engine objects create makes from the object at ref:
\* the pause container and the init / run containers of the plan
PlanEngineLabels(heap, ref) ==
    LET w == heap[ref]
        Of(component) ==
            w.labels[1] \cup {<<ReservedPrefix, "component", component>>}
    IN  <<Of("pause")>> \o
        [i \in 1 .. Len(w.containers) |->
            Of(IF w.containers[i].profile = "Init" THEN "init" ELSE "run")]

\* create, up to the engine objects it makes; the validation errors leave
\* before the labels are set
CreatePlanResult(p) ==
    LET heap0 == [r \in PlanRefs |-> IF r = "caller" THEN p ELSE NoObject]
        c == CopyPlan(heap0, "caller")
        invalid == \A i \in 1 .. Len(p.containers) : p.containers[i].profile # "Run"
        heap1 == DefaultLabels(c.heap, c.workload)
    IN  IF invalid
        THEN [heap |-> c.heap, workload |-> c.workload, error |-> TRUE, engine |-> <<>>]
        ELSE [heap |-> heap1, workload |-> c.workload, error |-> FALSE,
              engine |-> PlanEngineLabels(heap1, c.workload)]

InitPlan ==
    /\ arg \in CallerPlans
    /\ ret = <<>>
    /\ Quiet

CreatePlan ==
    /\ ret = <<>>
    /\ ret' = <<CreatePlanResult(arg)>>
    /\ UNCHANGED <<plan, supported, containers, volumes, files, pc, loc, result,
                   ops, faults, log, parseIn, parseOut, arg>>

SpecPlan == InitPlan /\ [][CreatePlan]_vars

\* ------------------------------------------ the container logs / exec act on
\* the containers an engine holds: two run containers and the pause container
\* of workload "w", an init and a run container of workload "x"
TargetContainers ==
    LET up == [status |-> "running", exit |-> 0]
        Of(wl, component, id) ==
            [EngineContainer(wl, component, up, "always", {}, FALSE)
                EXCEPT !.name = <<wl, id>>]
    IN  {Of("w", "run", "run-0"), Of("w", "run", "run-1"), Of("w", "pause", "pause"),
         Of("x", "init", "init-0"), Of("x", "run", "run-0")}

\* token: None (<<>>) or the id of some container
NoToken == <<>>
TargetTokens == {NoToken} \cup {c.name : c \in TargetContainers}

\* logs / exec: next((c for c in d_containers
\*     if (c.id == token if token else c.labels.get(_LABEL_COMPONENT) == "run")), None)
TargetOf(d_containers, token) ==
    LET Match(c) == IF token # NoToken THEN c.name = token
                    ELSE HasLabel(c, "component", {"run"})
    IN  SelectSeq(d_containers, Match)

\* logs / exec up to the engine call on the container: the outcome and the
\* containers container.logs / container.exec_run was called on
TargetResult(name, token, list, fails) ==
    LET d_containers == ListFiltered(list, name)
        found == TargetOf(d_containers, token)
    IN  IF d_containers = <<>> \/ found = <<>>
        THEN [out |-> "OperationError", touched |-> {}]
        ELSE [out |-> IF fails THEN "OperationError" ELSE "ok",
              touched |-> {found[1].name}]

InitTarget ==
    /\ \E list \in SeqsUpTo(TargetContainers, MaxList) :
          /\ Distinct(list)
          /\ arg \in [op : {"logs", "exec"}, name : WorkloadNames,
                      token : TargetTokens, list : {list}, fails : BOOLEAN]
    /\ ret = <<>>
    /\ Quiet

\* logs(name, token)
Logs ==
    /\ ret = <<>>
    /\ arg.op = "logs"
    /\ ret' = <<TargetResult(arg.name, arg.token, arg.list, arg.fails)>>
    /\ UNCHANGED <<plan, supported, containers, volumes, files, pc, loc, result,
                   ops, faults, log, parseIn, parseOut, arg>>

\* exec(name, token)
Exec ==
    /\ ret = <<>>
    /\ arg.op = "exec"
    /\ ret' = <<TargetResult(arg.name, arg.token, arg.list, arg.fails)>>
    /\ UNCHANGED <<plan, supported, containers, volumes, files, pc, loc, result,
                   ops, faults, log, parseIn, parseOut, arg>>

NextTarget == Logs \/ Exec
SpecTarget == InitTarget /\ [][NextTarget]_vars

\* ------------------------------------------------- the statuses list returns
\* containers the deployer did not make: one that carries the workload label
\* of "w" without a component label, one with a component label only
ForeignContainers ==
    LET c == EngineContainer("w", "run", [status |-> "exited", exit |-> 1], "no", {}, FALSE)
    IN  {[c EXCEPT !.name = <<"w", "tool">>,
                   !.labels = {<<ReservedPrefix, "workload", "w">>}],
         [c EXCEPT !.name = <<"", "stray">>, !.workload = "",
                   !.labels = {<<ReservedPrefix, "component", "run">>}]}

\* c.labels.get(_LABEL_WORKLOAD) has a non-empty value
HasWorkloadLabel(c) == \E l \in c.labels : l[1] = ReservedPrefix /\ l[2] = "workload" /\ l[3] # ""

\* containers.list(filters label workload and label component), no label
\* filter given by the caller
ListLabelled(list) ==
    LET Match(c) == HasWorkloadLabel(c) /\ HasLabel(c, "component", Components)
    IN  SelectSeq(list, Match)

\* c.labels.get(key), of a container that carries the label
LabelValue(c, key) ==
    CHOOSE v \in {l[3] : l \in {x \in c.labels : x[1] = ReservedPrefix /\ x[2] = key}} : TRUE

RECURSIVE WorkloadMappingKeys(_, _)
\* the keys of workload_mapping in insertion order, from position i on
WorkloadMappingKeys(d_containers, i) ==
    IF i = 0 THEN <<>>
    ELSE LET before == WorkloadMappingKeys(d_containers, i - 1)
             n == LabelValue(d_containers[i], "workload")
         IN  IF \E j \in 1 .. Len(before) : before[j] = n THEN before
             ELSE Append(before, n)

\* a variant of the grouping that gives every workload all the containers
WorkloadMappingAll(d_containers, name) == d_containers

\* workload_mapping[name]: the containers labelled with the workload
WorkloadMapping(d_containers, name) ==
    LET Match(c) == HasLabel(c, "workload", {name})
    IN  SelectSeq(d_containers, Match)

\* list(): one DockerWorkloadStatus per key of workload_mapping
ListStatuses(list) ==
    LET d_containers == ListLabelled(list)
        keys == WorkloadMappingKeys(d_containers, Len(d_containers))
    IN  [i \in 1 .. Len(keys) |->
            DockerWorkloadStatus(keys[i], WorkloadMapping(d_containers, keys[i]))]

InitList ==
    /\ \E L \in UserLabelSets, heal \in BOOLEAN :
          \E l \in SeqsUpTo(StatusContainers(L, heal) \cup ForeignContainers, MaxList) :
             /\ Distinct(l)
             /\ arg = [labels |-> L, list |-> l]
    /\ ret = <<>>
    /\ Quiet

\* list() with no label filter
List ==
    /\ ret = <<>>
    /\ ret' = <<ListStatuses(arg.list)>>
    /\ UNCHANGED <<plan, supported, containers, volumes, files, pc, loc, result,
                   ops, faults, log, parseIn, parseOut, arg>>

SpecList == InitList /\ [][List]_vars

\* ----------------------------------------- detector: architecture family
\* a variant that tells turing from volta by the wrong minor number
get_arch_family_late(dev_cc_t) ==
    CASE dev_cc_t[1] = 1 -> "tesla"
      [] dev_cc_t[1] = 2 -> "fermi"
      [] dev_cc_t[1] = 3 -> "kepler"
      [] dev_cc_t[1] = 5 -> "maxwell"
      [] dev_cc_t[1] = 6 -> "pascal"
      [] dev_cc_t[1] = 7 -> IF dev_cc_t[2] < 9 THEN "volta" ELSE "turing"
      [] dev_cc_t[1] = 8 -> IF dev_cc_t[2] < 9 THEN "ampere" ELSE "ada-lovelace"
      [] dev_cc_t[1] = 9 -> "hopper"
      [] dev_cc_t[1] \in {10, 12} -> "blackwell"
      [] OTHER -> "unknown"

\* _get_arch_family(dev_cc_t): match dev_cc_t[0]
get_arch_family(dev_cc_t) ==
    CASE dev_cc_t[1] = 1 -> "tesla"
      [] dev_cc_t[1] = 2 -> "fermi"
      [] dev_cc_t[1] = 3 -> "kepler"
      [] dev_cc_t[1] = 5 -> "maxwell"
      [] dev_cc_t[1] = 6 -> "pascal"
      [] dev_cc_t[1] = 7 -> IF dev_cc_t[2] < 5 THEN "volta" ELSE "turing"
      [] dev_cc_t[1] = 8 -> IF dev_cc_t[2] < 9 THEN "ampere" ELSE "ada-lovelace"
      [] dev_cc_t[1] = 9 -> "hopper"
      [] dev_cc_t[1] \in {10, 12} -> "blackwell"
      [] OTHER -> "unknown"

InitArch ==
    /\ arg \in (0 .. MaxMajor) \X (0 .. MaxMinor)
    /\ ret = <<>>
    /\ Quiet

\* detect: dev_appendix["arch_family"] = _get_arch_family(dev_cc_t)
ArchFamily ==
    /\ ret = <<>>
    /\ ret' = <<get_arch_family(arg)>>
    /\ UNCHANGED <<plan, supported, containers, volumes, files, pc, loc, result,
                   ops, faults, log, parseIn, parseOut, arg>>

SpecArch == InitArch /\ [][ArchFamily]_vars

\* ------------------------------------------------ detector: MIG device name
\* a GPU instance profile id NVML_GPU_INSTANCE_PROFILE_{n}_SLICE{_variant}
\* as <<n, variant>>, a compute instance profile id likewise
GpuInstanceProfiles ==
    ({1} \X {"", "REV1", "REV2", "GFX", "NO_ME", "ALL_ME"})
    \cup ({2} \X {"", "REV1", "GFX", "NO_ME", "ALL_ME"})
    \cup ({4} \X {"", "GFX"})
    \cup ({3, 6, 7, 8} \X {""})
ComputeInstanceProfiles ==
    ({1} \X {"", "REV1"}) \cup ({2, 3, 4, 6, 7, 8} \X {""})

\* _get_gpu_instance_slices, _get_compute_instance_slices
get_gpu_instance_slices(dev_gi_prf_id) == dev_gi_prf_id[1]
get_compute_instance_slices(dev_ci_prf_id) == dev_ci_prf_id[1]

\* _get_gpu_instance_attrs
get_gpu_instance_attrs(dev_gi_prf_id) ==
    CASE dev_gi_prf_id \in {<<1, "REV1">>, <<2, "REV1">>} -> <<"m", "e">>
      [] dev_gi_prf_id \in {<<1, "ALL_ME">>, <<2, "ALL_ME">>} ->
            <<"m", "e", ".", "a", "l", "l">>
      [] dev_gi_prf_id \in {<<1, "GFX">>, <<2, "GFX">>, <<4, "GFX">>} ->
            <<"g", "f", "x">>
      [] OTHER -> <<>>

\* _get_gpu_instance_negative_attrs
get_gpu_instance_negative_attrs(dev_gi_prf_id) ==
    IF dev_gi_prf_id \in {<<1, "NO_ME">>, <<2, "NO_ME">>} THEN <<"m", "e">> ELSE <<>>

\* ceil(a / b) of positive integers
CeilDiv(a, b) == (a + b - 1) \div b

\* _get_compute_instance_memory_in_gib(dev_mem, mdev_attrs), for a GPU whose
\* dev_mem.total is total_mib * 2^20 bytes:
\*   round(ceil(memorySizeMB * 2^20 / total * 8) / 8 * ((total + 2^30 - 1) / 2^30))
\* with true division in the last factor. With eighths the value of ceil,
\* the argument of round is eighths * (total_mib + 1024) / 8192 less
\* eighths / 2^33, a difference below half of 1 / 8192: it is rounded up
\* exactly when the remainder of the division by 8192 is above 4096
get_compute_instance_memory_in_gib(total_mib, memorySizeMB) ==
    LET eighths == CeilDiv(memorySizeMB * 8, total_mib)
        num == eighths * (total_mib + 1024)
        f == num \div 8192
        r == num % 8192
    IN  IF r > 4096 THEN f + 1 ELSE f

\* detect: mdev_name from the slice counts, the memory and the attributes
MigName(gi_slices, ci_slices, ci_mem, gi_attrs, gi_neg_attrs) ==
    (IF gi_slices = ci_slices
     THEN Decimal(gi_slices) \o <<"g", ".">> \o Decimal(ci_mem) \o <<"g", "b">>
     ELSE Decimal(ci_slices) \o <<"c", ".">> \o Decimal(gi_slices) \o <<"g", ".">>
          \o Decimal(ci_mem) \o <<"g", "b">>)
    \o (IF gi_attrs # <<>> THEN <<"+">> \o gi_attrs ELSE <<>>)
    \o (IF gi_neg_attrs # <<>> THEN <<"-">> \o gi_neg_attrs ELSE <<>>)

\* the name and the cores detect computes for a MIG device with GPU
\* instance profile gi, compute instance profile ci, memorySizeMB mem on a
\* GPU of total_mib MiB
MigDevice(gi, ci, mem, total_mib) ==
    [name |-> MigName(get_gpu_instance_slices(gi), get_compute_instance_slices(ci),
                      get_compute_instance_memory_in_gib(total_mib, mem),
                      get_gpu_instance_attrs(gi),
                      get_gpu_instance_negative_attrs(gi)),
     cores |-> get_compute_instance_slices(ci)]

\* mdev_attrs.memorySizeMB: one and two slices of 4864 MB, and the sizes of
\* the 2g.10gb, 3g.20gb and 7g.40gb instances of a 40 GiB GPU
MemorySizesMB == {4864, 9728, 9856, 19968, 40192}
\* dev_mem.total in MiB: 40 GiB and 80 GiB
TotalMiB == {40960, 81920}
MigInputs ==
    {x \in [gi : GpuInstanceProfiles, ci : ComputeInstanceProfiles,
            mem : MemorySizesMB, total : TotalMiB] : x.ci[1] <= x.gi[1]}

InitMig ==
    /\ arg \in MigInputs
    /\ ret = <<>>
    /\ Quiet

\* detect, for one MIG device
MigDetect ==
    /\ ret = <<>>
    /\ ret' = <<MigDevice(arg.gi, arg.ci, arg.mem, arg.total)>>
    /\ UNCHANGED <<plan, supported, containers, volumes, files, pc, loc, result,
                   ops, faults, log, parseIn, parseOut, arg>>

SpecMig == InitMig /\ [][MigDetect]_vars

\* ------------------------------------- delete next to another workload
\* an engine with the objects of two workloads: containers and volumes carry
\* the label workload=<owner>, a file is the path create wrote for its owner
OwnedObjects(owner, hasContainers, hasVolume, hasFile) ==
    [containers |-> IF hasContainers
                    THEN {[workload |-> owner, component |-> k] : k \in {"pause", "run"}}
                    ELSE {},
     volumes |-> IF hasVolume THEN {[workload |-> owner, volume |-> "data"]} ELSE {},
     files |-> IF hasFile
               THEN {[workload |-> owner, path |-> EphemeralFileName(owner, 0, 0)]}
               ELSE {}]

\* the engine delete(name) meets: the objects `own` of the named workload and
\* the objects `other` of another one
Engine(name, own, other, fails) ==
    [containers |-> own.containers \cup other.containers,
     volumes |-> own.volumes \cup other.volumes,
     files |-> own.files \cup other.files,
     name |-> name, fails |-> fails]

\* Path.glob(f"{name}-*") matches the file name
GlobMatches(name, path) ==
    /\ Len(path) >= Len(name) + 1
    /\ SubSeq(path, 1, Len(name) + 1) = name \o <<"-">>

\* delete(name) against the engine e; when e.fails the engine refuses to list
\* the volumes
DeleteResult(e) ==
    LET d_containers == {c \in e.containers : c.workload = e.name}
        d_volumes == {v \in e.volumes : v.workload = e.name}
        globbed == {f \in e.files : GlobMatches(e.name, f.path)}
        kept == [containers |-> e.containers \ d_containers]
    IN  IF d_containers = {}
        THEN [out |-> "None", containers |-> e.containers, volumes |-> e.volumes,
              files |-> e.files]
        ELSE IF e.fails
        THEN [out |-> "OperationError", containers |-> kept.containers,
              volumes |-> e.volumes, files |-> e.files]
        ELSE [out |-> "ok", containers |-> kept.containers,
              volumes |-> e.volumes \ d_volumes, files |-> e.files \ globbed]

\* the named workload has a name one character shorter than the longest
InitDelete ==
    /\ \E name \in SeqsUpTo(NameChars, MaxNameLen - 1) \ {<<>>},
          n \in WorkloadNameStrings, c, v, f, fails \in BOOLEAN :
          /\ n # name
          /\ arg = Engine(name, OwnedObjects(name, c, v, f),
                          OwnedObjects(n, TRUE, TRUE, TRUE), fails)
    /\ ret = <<>>
    /\ Quiet

\* delete(name)
Delete ==
    /\ ret = <<>>
    /\ ret' = <<DeleteResult(arg)>>
    /\ UNCHANGED <<plan, supported, containers, volumes, files, pc, loc, result,
                   ops, faults, log, parseIn, parseOut, arg>>

SpecDelete == InitDelete /\ [][Delete]_vars

\* ------------------------------------------- detector: the MIG devices of a GPU
\* the MIG devices a 40 GiB GPU may hold: 1g.5gb, 2g.10gb, 1c.2g.10gb, 3g.20gb
MigProfiles ==
    {[gi |-> <<1, "">>, ci |-> <<1, "">>, mem |-> 4864],
     [gi |-> <<2, "">>, ci |-> <<2, "">>, mem |-> 9856],
     [gi |-> <<2, "">>, ci |-> <<1, "">>, mem |-> 9856],
     [gi |-> <<3, "">>, ci |-> <<3, "">>, mem |-> 19968]}

RECURSIVE MigLoop(_, _, _, _, _)
\* detect: for mdev_idx in range(mdev_count), from device i on, with the
\* mdev_name and mdev_cores the earlier iterations left: the profiles are
\* looked up only "if not mdev_name"
MigLoop(migs, total_mib, i, mdev_name, mdev_cores) ==
    IF i > Len(migs) THEN <<>>
    ELSE LET d == IF mdev_name = <<>>
                  THEN MigDevice(migs[i].gi, migs[i].ci, migs[i].mem, total_mib)
                  ELSE [name |-> mdev_name, cores |-> mdev_cores]
         IN  <<d>> \o MigLoop(migs, total_mib, i + 1, d.name, d.cores)

\* detect, for one GPU with MIG enabled: mdev_name = "", mdev_cores = 0
\* before the loop
MigDevices(migs, total_mib) == MigLoop(migs, total_mib, 1, <<>>, 0)

InitGpu ==
    /\ arg \in [migs : SeqsUpTo(MigProfiles, MaxMigs), total : TotalMiB]
    /\ ret = <<>>
    /\ Quiet

\* detect
Detect ==
    /\ ret = <<>>
    /\ ret' = <<MigDevices(arg.migs, arg.total)>>
    /\ UNCHANGED <<plan, supported, containers, volumes, files, pc, loc, result,
                   ops, faults, log, parseIn, parseOut, arg>>

SpecGpu == InitGpu /\ [][Detect]_vars

\* ============================================================== properties
\* ---------------------------------------------------- status aggregation
\* the list in the order q (a permutation of its positions)
Reordered(list, q) == [i \in 1 .. Len(list) |-> list[q[i]]]

\* C9: status aggregation is order-independent: parse_state returns the same
\* state for every permutation of the list of container states
C9_OrderIndependent ==
    parseOut # "none" =>
        \A q \in Perms(1 .. Len(parseIn)) :
            parse_state(Reordered(parseIn, q)) = parseOut

\* the decision rules, stated over the positions of the list
Failing(x) == x.status = "dead" \/ (x.status = "exited" /\ x.exit # 0)
RunDecides(x) ==
    \/ x.status = "created"
    \/ Failing(x)
    \/ (x.status # "running" /\ x.policy = "no")
InitDecides(x) ==
    \/ x.status = "created"
    \/ Failing(x)
    \/ (x.status # "exited" /\ x.policy = "no")
First(S) == CHOOSE i \in S : \A j \in S : i <= j

InitRule(list) ==
    LET pos == {i \in 1 .. Len(list) : list[i].component = "init"}
        dec == {i \in pos : InitDecides(list[i])}
    IN  IF pos = {} THEN "Pending"
        ELSE IF dec = {} THEN "Initializing"
        ELSE IF list[First(dec)].status = "created" THEN "Pending"
        ELSE IF Failing(list[First(dec)]) THEN "Failed"
        ELSE "Initializing"

RuleState(list) ==
    LET runs == {i \in 1 .. Len(list) : list[i].component = "run"}
        inits == {i \in 1 .. Len(list) : list[i].component = "init"}
        dec == {i \in runs : RunDecides(list[i])}
    IN  IF runs = {} THEN (IF inits = {} THEN "Unknown" ELSE "Pending")
        ELSE IF dec = {} THEN "Running"
        ELSE IF list[First(dec)].status = "created" THEN InitRule(list)
        ELSE IF Failing(list[First(dec)])
             THEN (IF list[First(dec)].policy = "no" THEN "Failed" ELSE "Unhealthy")
        ELSE "Pending"

\* C10: parse_state returns the state of the decision rules: Unknown without
\* run and init containers, Pending with inits only, else what the first
\* deciding run container (in list order) gives, Running when none decides
C10_DecisionRules == parseOut # "none" => parseOut = RuleState(parseIn)

\* a created run container behind two inits, the first of them created, the
\* second failed: the first init decides
C10_Witness ==
    /\ parseOut = "Pending"
    /\ Len(parseIn) >= 3
    /\ parseIn[1].component = "init" /\ parseIn[1].status = "created"
    /\ parseIn[2].component = "init" /\ Failing(parseIn[2])
    /\ parseIn[3].component = "run" /\ parseIn[3].status = "created"

\* ------------------------------------------------------------------ create
\* the engine calls of the log that start a container
IsStart(e) == e[1] \in {"start", "restart", "unpause"}
Starts == {i \in 1 .. Len(log) : IsStart(log[i])}
\* the role of a container in the start order
Rank(n) ==
    CASE n[1] = "pause" -> 0
      [] n[1] = "init" -> 1
      [] n[1] = "run" -> 2
      [] OTHER -> 3
\* the containers of a profile the plan asks for
Planned(profile) ==
    {CtrName(profile, i - 1) : i \in {x \in 1 .. Len(plan.containers) :
                                         plan.containers[x].profile = profile}}
StartedBefore(n, j) == \E i \in Starts : i < j /\ log[i][2] = n

\* C1: create starts the containers in role order: the pause container before
\* any init, every init (in plan order) before any run, and the autoheal
\* container only after every run container
C1_StartOrder ==
    /\ \A i, j \in Starts :
          i < j =>
             /\ Rank(log[i][2]) <= Rank(log[j][2])
             /\ (log[i][2][1] = "init" /\ log[j][2][1] = "init"
                    => log[i][2][2] < log[j][2][2])
    /\ \A j \in Starts :
          /\ Rank(log[j][2]) >= 1 => StartedBefore(PauseName, j)
          /\ Rank(log[j][2]) >= 2 =>
                \A n \in Planned("Init") : StartedBefore(n, j)
          /\ Rank(log[j][2]) = 3 =>
                \A n \in Planned("Run") : StartedBefore(n, j)

\* a create that returned, of a plan listing a Run container before an Init
\* container, with the autoheal container started
C1_Witness ==
    /\ result["a"].op = "create" /\ result["a"].out = "ok"
    /\ Len(plan.containers) >= 2
    /\ plan.containers[1].profile = "Run"
    /\ plan.containers[2].profile = "Init"
    /\ \E j \in Starts : log[j][2] = HealName

\* the init containers started without engine restart policy
WaitedInit(i) ==
    /\ i \in Starts
    /\ log[i][2][1] = "init"
    /\ containers[log[i][2]].policy = "no"

\* C2: an init container without engine restart policy has exited with code 0
\* before create starts the next init or any run container; after a nonzero
\* exit of such an init create starts no further container
C2_InitExitsFirst ==
    /\ \A i, j \in Starts :
          (i < j /\ WaitedInit(i)) =>
             /\ \E w \in (i + 1) .. (j - 1) : log[w] = <<"wait", log[i][2], 0>>
             /\ containers[log[i][2]].status = "exited"
             /\ containers[log[i][2]].exit = 0
    /\ \A w \in 1 .. Len(log) :
          (log[w][1] = "wait" /\ log[w][3] # 0) =>
             /\ w = Len(log)
             /\ \A c \in Callers : pc[c] = "idle"

\* the first init exited with 0 and the second was started and exited with 1
C2_Witness ==
    /\ Len(log) >= 4
    /\ \E w \in 1 .. Len(log) : log[w] = <<"wait", <<"init", 0>>, 0>>
    /\ log[Len(log)] = <<"wait", <<"init", 1>>, 1>>

\* C3 as stated: no init container exists in the engine at a moment when the
\* pause container has not been started
C3_PauseStartedBeforeInitCreated ==
    (\E n \in Names : n[1] = "init" /\ containers[n].status # "absent")
        => \E i \in Starts : log[i][2] = PauseName

\* C3: the pause container is created before any init container is created,
\* and is started before any init container is started
C3_PauseBeforeInit ==
    \A j \in 1 .. Len(log) :
       log[j][2][1] = "init" =>
          /\ \E i \in 1 .. (j - 1) : log[i] = <<"create", PauseName, 0>>
          /\ IsStart(log[j]) => \E i \in 1 .. (j - 1) : log[i] = <<"start", PauseName, 0>>

\* an init container has been created and started
C3_Witness ==
    \E i, j \in 1 .. Len(log) :
       /\ log[i] = <<"create", <<"init", 0>>, 0>>
       /\ log[j] = <<"start", <<"init", 0>>, 0>>

\* C4: when an init container without restart policy exits with a nonzero
\* code during create, create fails, no run container is started, and get
\* returns Failed in whatever order the engine lists the containers
C4_InitFailure ==
    (\E w \in 1 .. Len(log) :
        log[w][1] = "wait" /\ log[w][2][1] = "init" /\ log[w][3] # 0)
    => /\ \A c \in Callers :
             /\ pc[c] = "idle"
             /\ result[c].op = "create"
             /\ result[c].out \notin {"ok", "none"}
       /\ \A j \in Starts : log[j][2][1] # "run"
       /\ GetStates = {"Failed"}

\* C7: create with a plan without containers, or without a Run container,
\* fails with OperationError before any engine call: nothing is looked up or
\* created in the engine and no ephemeral file is written
C7_ValidationFirst ==
    (\/ plan.containers = <<>>
     \/ \A i \in 1 .. Len(plan.containers) : plan.containers[i].profile # "Run")
    => /\ log = <<>>
       /\ Existing = {}
       /\ volumes = {}
       /\ files = {}
       /\ faults = 0
       /\ \A c \in Callers :
             /\ pc[c] = "idle"
             /\ (supported /\ result[c].op = "create")
                   => result[c].out = "OperationError"

\* the create of a plan of init containers with an inline file has failed
C7_Witness ==
    /\ plan.containers # <<>>
    /\ \A i \in 1 .. Len(plan.containers) : plan.containers[i].profile = "Init"
    /\ plan.file
    /\ supported
    /\ result["a"].op = "create"
    /\ result["a"].out = "OperationError"
    /\ files = {}

\* C8: every failure of create reaches the caller as UnsupportedError or as
\* OperationError
C8_TypedErrors ==
    \A c \in Callers :
       result[c].op = "create" =>
          result[c].out \in {"ok", "OperationError", "UnsupportedError"}

\* ------------------------------------------------------------------ delete
\* C5: after a successful create followed by a delete without engine error,
\* get returns no status and nothing of the workload is left: no container,
\* no labelled volume, no ephemeral file
C5_CreateDeleteClean ==
    \A c \in Callers :
       (/\ pc[c] = "idle"
        /\ result[c].op = "delete" /\ result[c].out = "ok"
        /\ result[c].prev = <<"create", "ok">>)
       => /\ Existing = {}
          /\ volumes = {}
          /\ files = {}
          /\ GetStates = {"None"}

\* a plan with an inline file was created, started and deleted
C5_Witness ==
    /\ pc["a"] = "idle"
    /\ result["a"] = [op |-> "delete", out |-> "ok", prev |-> <<"create", "ok">>]
    /\ plan.file
    /\ \E j \in Starts : log[j][2][1] = "run"

\* C6: after a create that failed at any step, a delete that ends without
\* error leaves no container and no ephemeral file of the failed create
C6_DeleteCleansFailedCreate ==
    \A c \in Callers :
       (/\ pc[c] = "idle"
        /\ result[c].op = "delete" /\ result[c].out \in {"ok", "None"}
        /\ result[c].prev[1] = "create"
        /\ result[c].prev[2] \notin {"ok", "UnsupportedError"})
       => /\ Existing = {}
          /\ files = {}

\* --------------------------------------------------------------------- get
\* the progress of a workload
StateRank(st) ==
    CASE st = "None" -> 0
      [] st = "Unknown" -> 1
      [] st = "Pending" -> 2
      [] st = "Initializing" -> 3
      [] st = "Running" -> 4
      [] OTHER -> 5

\* no container of the workload has failed
NoContainerFailed ==
    \A n \in Names : ~(containers[n].status = "dead"
                        \/ (containers[n].status = "exited" /\ containers[n].exit # 0))

\* C11: during a create in which no container fails, the state get returns
\* never moves backwards along Unknown, Pending, Initializing, Running, is
\* never Failed or Unhealthy, and is Running when create has returned
C11_GetMonotonic ==
    /\ [][(NoContainerFailed' /\ faults' = 0 /\ \E c \in Callers : pc[c] # "idle")
            => /\ StateRank(GetState) <= StateRank(GetState')
               /\ GetState' \notin {"Failed", "Unhealthy"}]_vars
    /\ [](\A c \in Callers :
             (NoContainerFailed /\ result[c].op = "create" /\ result[c].out = "ok")
                => GetState = "Running")

\* C12: once the health check of a run container with teardown has failed
\* (the container is running but unhealthy), get returns Unhealthy and the
\* autoheal container exists, labelled component=unhealthy-restart
C12_UnhealthyReported ==
    (/\ plan.teardown
     /\ \E n \in Workers :
           /\ n[1] = "run"
           /\ containers[n].status = "running"
           /\ containers[n].health = "unhealthy")
    => /\ GetStates = {"Unhealthy"}
       /\ containers[HealName].status # "absent"
       /\ Listed(HealName).component = "unhealthy-restart"

\* the containers of the engine's list
Held == {arg.list[i] : i \in 1 .. Len(arg.list)}
Tokens(ops_) == {ops_[i] : i \in 1 .. Len(ops_)}

\* C13: the executable and loggable lists of a status reference only
\* containers of the workload; every run container is in both, an init
\* container is in loggable and is in executable exactly when it is running
\* with a restart policy, pause and autoheal containers are in neither
C13_ExecutableLoggable ==
    Len(ret) = 1 =>
       /\ Tokens(ret[1].executable) \subseteq {c.name : c \in Held}
       /\ Tokens(ret[1].loggable) \subseteq {c.name : c \in Held}
       /\ \A c \in Held :
             /\ c.name \in Tokens(ret[1].executable) <=>
                   /\ c.workload = arg.name
                   /\ \/ c.component = "run"
                      \/ (c.component = "init" /\ c.status = "running"
                            /\ c.policy # "no")
             /\ c.name \in Tokens(ret[1].loggable) <=>
                   /\ c.workload = arg.name
                   /\ c.component \in {"init", "run"}

\* a status of a pause container, a running init container without restart
\* policy and a run container of another workload
C13_Witness ==
    /\ Len(ret) = 1
    /\ Len(arg.list) = 3
    /\ arg.list[1].workload = "x" /\ arg.list[1].component = "run"
    /\ arg.list[2].component = "pause"
    /\ arg.list[3].component = "init" /\ arg.list[3].status = "running"
    /\ arg.list[3].policy = "no"
    /\ ret[1].executable = <<>>
    /\ ret[1].loggable = <<arg.list[3].name>>

\* C14: the labels of the status are the user labels of the plan: each one
\* unchanged, no reserved label, whichever container is listed first
C14_UserLabels ==
    (Len(ret) = 1 /\ ret[1].state # "None") => ret[1].labels = arg.labels

\* two user labels, one in a namespace that resembles the reserved one, and
\* a run container carrying the heal label listed first
C14_Witness ==
    /\ Len(ret) = 1
    /\ Cardinality(arg.labels) = 2
    /\ Len(arg.list) >= 2
    /\ arg.list[1].workload = "w" /\ arg.list[1].component = "run"
    /\ HasLabel(arg.list[1], "component-heal-w", {"true"})
    /\ ret[1].labels = arg.labels

\* ---------------------------------------------------------------- re-create
\* the containers create makes for the plan
PlanNames ==
    {PauseName}
    \cup {CtrName(plan.containers[i].profile, i - 1) : i \in 1 .. Len(plan.containers)}
    \cup (IF plan.teardown
             /\ \E i \in 1 .. Len(plan.containers) : plan.containers[i].profile = "Run"
          THEN {HealName} ELSE {})

\* C15: after any number of successful creates of the plan the engine holds
\* the autoheal container if a Run container of the plan has
\* checks[0].teardown, and no autoheal container otherwise
C15_OneAutoheal ==
    \A c \in Callers :
       (pc[c] = "idle" /\ result[c].op = "create" /\ result[c].out = "ok")
       => (containers[HealName].status # "absent"
             <=> (/\ plan.teardown
                  /\ \E i \in 1 .. Len(plan.containers) :
                        plan.containers[i].profile = "Run"))

\* two successful creates of a plan with teardown
C15_Witness ==
    /\ pc["a"] = "idle"
    /\ result["a"] = [op |-> "create", out |-> "ok", prev |-> <<"create", "ok">>]
    /\ plan.teardown
    /\ containers[HealName].status = "running"

\* C16: a second create with the same plan adopts every container by name
\* and creates none: the containers of the workload after it are those after
\* the first create
C16_CreateIdempotent ==
    \A c \in Callers :
       (/\ pc[c] = "idle"
        /\ result[c].op = "create"
        /\ result[c].prev = <<"create", "ok">>
        /\ faults = 0)
       => /\ result[c].out # "OperationError"
          /\ \A i \in 1 .. Len(log) : log[i][1] # "create"
          /\ Existing = PlanNames

\* the second create has returned; it restarted an adopted container
C16_Witness ==
    /\ pc["a"] = "idle"
    /\ result["a"] = [op |-> "create", out |-> "ok", prev |-> <<"create", "ok">>]
    /\ \E i \in 1 .. Len(log) : log[i][1] = "restart"
    /\ Existing = PlanNames

C18_BestEffort ==
    \A c \in Callers :
       (/\ pc[c] = "idle"
        /\ result[c].op = "delete" /\ result[c].out = "OperationError"
        /\ result[c].prev = <<"create", "ok">>
        /\ faults = 1
        /\ Existing # PlanNames)
       => Cardinality(Existing) + Cardinality(volumes) + Cardinality(files) <= 1

\* ------------------------------------------------------------------ volumes
\* {plan.name}-{mount.volume} for the volume of the plan
VolumeName == "data"

\* C19: a create of a plan with a volume mount that meets no engine error
\* and no failing container succeeds and leaves the engine volume
\* {plan.name}-{mount.volume} of the mount
C19_VolumesCreated ==
    \A c \in Callers :
       (/\ result[c].op = "create"
        /\ plan.volume
        /\ supported
        /\ faults = 0
        /\ NoContainerFailed
        /\ \E i \in 1 .. Len(plan.containers) : plan.containers[i].profile = "Run")
       => /\ result[c].out = "ok"
          /\ VolumeName \in volumes

\* --------------------------------------------------- ephemeral file paths
\* C20: the paths of two ephemeral files whose (workload name, container
\* index, file index) differ are different
C20_PathsUnique ==
    Len(ret) = 1 => (arg[1] # arg[2] => ret[1][1] # ret[1][2])

\* the files a-1 / 1 / 11 and a / 1 / 1: one path is the start of the other
C20_Witness ==
    /\ Len(ret) = 1
    /\ arg[1] = [name |-> <<"a", "-", "1">>, ci |-> 1, fi |-> 11]
    /\ arg[2] = [name |-> <<"a">>, ci |-> 1, fi |-> 1]
    /\ ret[1][1] # ret[1][2]
    /\ SubSeq(ret[1][1], 1, Len(ret[1][2])) = ret[1][2]

\* ------------------------------------------------------ the caller's plan
\* C21: create leaves the caller's plan as it was (name, labels, containers),
\* and the workload label is on the engine objects only
C21_PlanUnchanged ==
    ret # <<>> =>
        /\ ret[1].heap["caller"] = arg
        /\ \A i \in 1 .. Len(ret[1].engine) :
              <<ReservedPrefix, "workload", arg.name>> \in ret[1].engine[i]

C21_Witness ==
    /\ ret # <<>>
    /\ ~ret[1].error
    /\ arg.labels # <<>>
    /\ Len(ret[1].engine) > 1
    /\ ret[1].heap[ret[1].workload].labels # arg.labels
    /\ ret[1].heap["caller"] = arg

\* ------------------------------------------------ the target of logs / exec
\* the positions of the containers of the named workload in the engine's list
OwnPositions == {i \in 1 .. Len(arg.list) : arg.list[i].workload = arg.name}
\* the expected target: the container with the token's id, or the first run
\* container, among the containers of the named workload
Expected ==
    IF arg.token # NoToken
    THEN {i \in OwnPositions : arg.list[i].name = arg.token}
    ELSE LET runs == {i \in OwnPositions : arg.list[i].component = "run"}
         IN  {i \in runs : \A j \in runs : i <= j}

Deployed ==
    {n \in WorkloadNames :
        \E i \in 1 .. Len(arg.list) :
            /\ HasLabel(arg.list[i], "workload", {n})
            /\ HasLabel(arg.list[i], "component", Components)}

\* C23: list without a label filter returns exactly one status per workload
\* that has a component-labelled container, with the state, executable and
\* loggable that get(name) returns on the same engine state
C23_ListAgreesWithGet ==
    ret # <<>> =>
        /\ {ret[1][i].name : i \in 1 .. Len(ret[1])} = Deployed
        /\ Len(ret[1]) = Cardinality(Deployed)
        /\ \A i \in 1 .. Len(ret[1]) :
              LET s == get(ret[1][i].name, arg.list)
              IN  /\ ret[1][i].state = s.state
                  /\ ret[1][i].executable = s.executable
                  /\ ret[1][i].loggable = s.loggable

\* two workloads listed, the containers of "w" in several states, next to
\* a container without a component label
C23_Witness ==
    /\ ret # <<>>
    /\ Len(ret[1]) = 2
    /\ \E i \in 1 .. Len(arg.list) : arg.list[i].name = <<"w", "tool">>
    /\ \E i \in 1 .. 2 : ret[1][i].name = "w" /\ ret[1][i].state # "Running"

\* --------------------------------------------------- architecture family
\* C24: _get_arch_family returns the family of the table for a compute
\* capability of the table, and unknown for every other one (major 0, 4, 11
\* and above 12 among them); the table as <<major, minors, family>>
C24_ArchFamily ==
    LET ArchTable ==
            {<<1, 0 .. MaxMinor, "tesla">>, <<2, 0 .. MaxMinor, "fermi">>,
             <<3, 0 .. MaxMinor, "kepler">>, <<5, 0 .. MaxMinor, "maxwell">>,
             <<6, 0 .. MaxMinor, "pascal">>,
             <<7, 0 .. 4, "volta">>, <<7, 5 .. MaxMinor, "turing">>,
             <<8, 0 .. 8, "ampere">>, <<8, 9 .. MaxMinor, "ada-lovelace">>,
             <<9, 0 .. MaxMinor, "hopper">>,
             <<10, 0 .. MaxMinor, "blackwell">>, <<12, 0 .. MaxMinor, "blackwell">>}
    IN  ret # <<>> =>
            /\ \A t \in ArchTable :
                  (arg[1] = t[1] /\ arg[2] \in t[2]) => ret[1] = t[3]
            /\ (\A t \in ArchTable : ~(arg[1] = t[1] /\ arg[2] \in t[2]))
                  => ret[1] = "unknown"
            /\ arg[1] \in {0, 4, 11} => ret[1] = "unknown"

C24_Witness ==
    /\ ret # <<>>
    /\ arg = <<7, 5>>
    /\ ret[1] = "turing"

\* ------------------------------------------------------- MIG device name
\* C25: the MIG device name is {gi}g.{gib}gb when the slice counts of the GPU
\* instance and the compute instance are equal and {ci}c.{gi}g.{gib}gb
\* otherwise, followed by +attrs and -negattrs, where gib =
\* round(ceil(slice_memory_MB * 2^20 / total_memory_B * 8) / 8
\*       * ceil(total_memory_B / 2^30)); a 40 GiB GPU with 4864 MB a slice
\* gives 1g.5gb (gi=1, ci=1), 1c.2g.10gb (gi=2, ci=1) and 2g.10gb+gfx
C25_MigName ==
    ret # <<>> =>
        LET eighths == CeilDiv(arg.mem * 8, arg.total)
            num == eighths * CeilDiv(arg.total, 1024)
            half == num % 8 = 4
            gib == IF num % 8 > 4 \/ (half /\ (num \div 8) % 2 = 1)
                   THEN (num \div 8) + 1 ELSE num \div 8
            gi == arg.gi[1]
            ci == arg.ci[1]
            attrs == CASE arg.gi[2] = "REV1" -> <<"+", "m", "e">>
                       [] arg.gi[2] = "ALL_ME" -> <<"+", "m", "e", ".", "a", "l", "l">>
                       [] arg.gi[2] = "GFX" -> <<"+", "g", "f", "x">>
                       [] arg.gi[2] = "NO_ME" -> <<"-", "m", "e">>
                       [] OTHER -> <<>>
            base == Decimal(gi) \o <<"g", ".">> \o Decimal(gib) \o <<"g", "b">>
        IN  /\ ret[1].name =
                  (IF gi = ci THEN base ELSE Decimal(ci) \o <<"c", ".">> \o base)
                  \o attrs
            /\ (arg.total = 40960 /\ arg.mem = arg.gi[1] * 4864) =>
                  /\ (arg.gi = <<1, "">> /\ arg.ci = <<1, "">>) =>
                        ret[1].name = <<"1", "g", ".", "5", "g", "b">>
                  /\ (arg.gi = <<2, "">> /\ arg.ci = <<1, "">>) =>
                        ret[1].name =
                            <<"1", "c", ".", "2", "g", ".", "1", "0", "g", "b">>
                  /\ (arg.gi = <<2, "GFX">> /\ arg.ci = <<2, "">>) =>
                        ret[1].name =
                            <<"2", "g", ".", "1", "0", "g", "b", "+", "g", "f", "x">>

\* --------------------------------------------------- engine restart policy
\* Container.restart_policy with its documented default: Always for a run
\* container, Never for an init container
EffectivePolicy(c) ==
    IF c.restart_policy # "None" THEN c.restart_policy
    ELSE IF c.profile = "Run" THEN "Always" ELSE "Never"

\* C26: the engine restart policy of every init and run container create
\* makes follows the container's effective restart policy: Always gives
\* always, OnFailure gives on-failure, Never gives none
C26_RestartPolicy ==
    \A i \in 1 .. Len(plan.containers) :
        LET c == plan.containers[i]
            n == CtrName(c.profile, i - 1)
            eff == EffectivePolicy(c)
        IN  containers[n].status # "absent" =>
                containers[n].policy =
                    (IF eff = "Always" THEN "always"
                     ELSE IF eff = "OnFailure" THEN "on-failure" ELSE "no")

\* ------------------------------------------------- start action by status
\* the engine calls of _start_containers that act on a container's run state
StartCalls == {"start", "restart", "unpause"}
\* the container create is about to start, as create holds it
StartHandle(c) == StartList(loc[c])[loc[c].k]

\* a step of _start_containers on a container: the call follows the status
\* create holds for it, and a running container gets no call
StartStepByStatus ==
    \A c \in Callers :
        (pc[c] = "c_start" /\ (pc'[c] # "c_start" \/ loc'[c] # loc[c])) =>
            LET h == StartHandle(c)
                appended == IF Len(log') = Len(log) + 1 THEN <<log'[Len(log')]>> ELSE <<>>
            IN  /\ h.status = "created" /\ appended # <<>> => appended[1][1] = "start"
                /\ h.status \in {"exited", "dead"} /\ appended # <<>> =>
                      appended[1][1] = "restart"
                /\ h.status = "paused" /\ appended # <<>> => appended[1][1] = "unpause"
                /\ h.status = "running" => log' = log
                /\ appended # <<>> => appended[1][2] = h.name
                /\ (result'[c].out = "ok" \/ pc'[c] # "idle") =>
                      (appended = <<>> <=> h.status = "running")

\* a create that found a run container of the workload running has issued no
\* call on it
RunningLeftAlone ==
    \A c \in Callers :
        \A j \in 1 .. Len(loc[c].runs) :
            loc[c].runs[j].status = "running" =>
                \A e \in 1 .. Len(log) :
                    log[e][2] = loc[c].runs[j].name => log[e][1] \notin StartCalls

\* C27: the engine call create issues on a container follows the status of
\* the container: created gives start, exited or dead gives restart, paused
\* gives unpause, running gives no call; so a second create of a workload
\* whose run containers are running issues no start, restart or unpause on
\* them
C27_StartByStatus == [][StartStepByStatus]_vars /\ []RunningLeftAlone

\* a second create has passed a run container it found running
C27_Witness ==
    \E c \in Callers :
        /\ result[c].op = "create"
        /\ pc[c] \in {"c_start", "c_wait"}
        /\ loc[c].runs # <<>>
        /\ loc[c].runs[1].status = "running"
        /\ loc[c].k > 1 + Len(loc[c].inits) + 1

\* ---------------------------------------------------- the frame of delete
\* C29: delete(name) changes only objects of the named workload: the
\* containers, volumes and files of a workload of another name (a name that
\* starts with {name}- among them) are as before; and a delete of a workload
\* without a container returns None and changes nothing
C29_DeleteFrame ==
    ret # <<>> =>
        /\ \A c \in arg.containers : c.workload # arg.name => c \in ret[1].containers
        /\ \A v \in arg.volumes : v.workload # arg.name => v \in ret[1].volumes
        /\ \A f \in arg.files : f.workload # arg.name => f \in ret[1].files
        /\ (\A c \in arg.containers : c.workload # arg.name) =>
              /\ ret[1].out = "None"
              /\ ret[1].containers = arg.containers
              /\ ret[1].volumes = arg.volumes
              /\ ret[1].files = arg.files

\* ------------------------------------------------- what create waits for
\* C30: create terminates once every init container without restart policy
\* has exited: for every profile and restart_policy of the plan's containers
\* it waits only for the exit of such init containers, never for the exit of
\* the pause container, a run container or the autoheal container
C30_WaitsOnlyForInit ==
    \A c \in Callers :
        pc[c] = "c_wait" =>
            /\ StartHandle(c).name[1] = "init"
            /\ ~has_restart_policy(StartHandle(c))

\* ------------------------------------------------- MIG devices of one GPU
\* C28: every MIG device detect emits has the name and the cores of its own
\* GPU instance and compute instance profiles: its name begins with its own
\* slice counts ({gi}g. or {ci}c.{gi}g.) and its cores is its own compute
\* instance slice count, also when two MIG devices of a GPU differ in profile
C28_OwnProfiles ==
    ret # <<>> =>
        /\ Len(ret[1]) = Len(arg.migs)
        /\ \A i \in 1 .. Len(arg.migs) :
              LET gi == arg.migs[i].gi[1]
                  ci == arg.migs[i].ci[1]
                  slices == IF gi = ci THEN Decimal(gi) \o <<"g", ".">>
                            ELSE Decimal(ci) \o <<"c", ".">> \o Decimal(gi) \o <<"g", ".">>
              IN  /\ ret[1][i].cores = ci
                  /\ Len(ret[1][i].name) >= Len(slices)
                  /\ SubSeq(ret[1][i].name, 1, Len(slices)) = slices

====
